---- MODULE Spec2Model ----
(***************************************************************************)
(* Model of jumper (src/main.go): a directory bookmark store kept in one   *)
(* flat text file, with the verbs add, list, remove and jump.              *)
(*                                                                         *)
(* Strings are sequences of one-character strings, so that trimming,       *)
(* line splitting, base names, number parsing and number formatting are    *)
(* computed as the Go library computes them.  A fixed message literal of   *)
(* the program is kept as one piece (one element) of an output stream; it  *)
(* contains no newline, newlines are always separate "\n" elements.        *)
(***************************************************************************)
EXTENDS Integers, Sequences, FiniteSets

(***************************************************************************)
(* Bounds and input sets                                                   *)
(***************************************************************************)
\* largest size in bytes the store file may grow to through add
MaxFileLen == 11
\* largest size in bytes of an arbitrary store file given to a load
MaxLoadLen == 4

DirA == <<"/", "a">>
DirBA == <<"/", "b", "/", "a">>
DirASp == <<"/", "a", " ">>
Dir2 == <<"/", "2">>

\* working directories an invocation of add may run from (os.Getwd results)
WorkDirs == {DirA, DirBA, DirASp, Dir2}

\* tokens given to jump and remove
Tokens == {<<"1">>, <<"2">>, <<"3">>, <<"+", "1">>, <<"0">>, <<"a">>,
           <<"/", "a">>, <<"/", "b", "/", "a">>, <<"x">>}

(***************************************************************************)
(* Library functions used by the program                                   *)
(***************************************************************************)
\* unicode.IsSpace restricted to the ASCII white space characters
IsSpace(c) == c \in {" ", "\t", "\n", "\r", "\f"}

\* strings.TrimSpace: drop leading and trailing white space
RECURSIVE TrimLeft(_)
TrimLeft(s) ==
    IF s = <<>> THEN <<>>
    ELSE IF IsSpace(Head(s)) THEN TrimLeft(Tail(s))
    ELSE s

RECURSIVE TrimRight(_)
TrimRight(s) ==
    IF s = <<>> THEN <<>>
    ELSE IF IsSpace(s[Len(s)]) THEN TrimRight(SubSeq(s, 1, Len(s) - 1))
    ELSE s

TrimSpace(s) == TrimRight(TrimLeft(s))

\* bytes.IndexByte: position of the first c in s, 0 when there is none
RECURSIVE IndexFrom(_, _, _)
IndexFrom(c, s, i) ==
    IF i > Len(s) THEN 0
    ELSE IF s[i] = c THEN i
    ELSE IndexFrom(c, s, i + 1)

IndexByte(c, s) == IndexFrom(c, s, 1)

\* bufio.dropCR: drop one terminal carriage return
dropCR(s) ==
    IF s # <<>> /\ s[Len(s)] = "\r" THEN SubSeq(s, 1, Len(s) - 1) ELSE s

\* bufio.ScanLines driven by Scanner.Scan: the lines of data, a final
\* unterminated line included when it is not empty
RECURSIVE ScanLines(_)
ScanLines(data) ==
    IF data = <<>> THEN <<>>
    ELSE LET i == IndexByte("\n", data)
         IN  IF i = 0 THEN <<dropCR(data)>>
             ELSE <<dropCR(SubSeq(data, 1, i - 1))>>
                  \o ScanLines(SubSeq(data, i + 1, Len(data)))

Digits == <<"0", "1", "2", "3", "4", "5", "6", "7", "8", "9">>

IsDigit(c) == \E k \in 1..10 : Digits[k] = c

DigitVal(c) == (CHOOSE k \in 1..10 : Digits[k] = c) - 1

RECURSIVE DecVal(_)
DecVal(s) ==
    IF s = <<>> THEN 0
    ELSE 10 * DecVal(SubSeq(s, 1, Len(s) - 1)) + DigitVal(s[Len(s)])

\* strconv.Atoi: optional sign, then one or more decimal digits
Atoi(s) ==
    LET signed == s # <<>> /\ Head(s) \in {"+", "-"}
        body == IF signed THEN Tail(s) ELSE s
    IN  IF body = <<>> \/ \E k \in 1..Len(body) : ~IsDigit(body[k])
        THEN [ok |-> FALSE, num |-> 0]
        ELSE [ok |-> TRUE,
              num |-> IF signed /\ Head(s) = "-" THEN 0 - DecVal(body)
                      ELSE DecVal(body)]

\* fmt %d of a non-negative integer
RECURSIVE Itoa(_)
Itoa(n) ==
    IF n < 10 THEN <<Digits[n + 1]>>
    ELSE Itoa(n \div 10) \o <<Digits[(n % 10) + 1]>>

RECURSIVE StripSlashes(_)
StripSlashes(p) ==
    IF p # <<>> /\ p[Len(p)] = "/" THEN StripSlashes(SubSeq(p, 1, Len(p) - 1))
    ELSE p

RECURSIVE LastSlash(_, _)
LastSlash(p, i) ==
    IF i = 0 THEN 0
    ELSE IF p[i] = "/" THEN i
    ELSE LastSlash(p, i - 1)

\* filepath.Base on a slash-separated path
Base(path) ==
    IF path = <<>> THEN <<".">>
    ELSE LET p == StripSlashes(path)
             i == LastSlash(p, Len(p))
             q == IF i > 0 THEN SubSeq(p, i + 1, Len(p)) ELSE p
         IN  IF q = <<>> THEN <<"/">> ELSE q

(***************************************************************************)
(* Store                                                                   *)
(***************************************************************************)
\* variant of KeepLines that trims the end of a line only
RECURSIVE KeepLinesMut(_)
KeepLinesMut(lines) ==
    IF lines = <<>> THEN <<>>
    ELSE LET line == TrimRight(Head(lines))
         IN  IF line # <<>> THEN <<line>> \o KeepLinesMut(Tail(lines))
             ELSE KeepLinesMut(Tail(lines))

\* the loop of readFolderList over the scanned lines
RECURSIVE KeepLines(_)
KeepLines(lines) ==
    IF lines = <<>> THEN <<>>
    ELSE LET line == TrimSpace(Head(lines))
         IN  IF line # <<>> THEN <<line>> \o KeepLines(Tail(lines))
             ELSE KeepLines(Tail(lines))

\* readFolderList on a file that opens and reads without error
readFolderList(data) == KeepLines(ScanLines(data))


\* the bytes removeFolder's write loop sends to the file for a list
RECURSIVE WriteLines(_)
WriteLines(list) ==
    IF list = <<>> THEN <<>>
    ELSE Head(list) \o <<"\n">> \o WriteLines(Tail(list))

(***************************************************************************)
(* Resolution of a token, as coded in jumpToFolder and in removeFolder     *)
(***************************************************************************)
\* variant of InRange that leaves out the last position
InRangeMut(num, n) == num > 0 /\ num < n

\* the condition num > 0 && num <= len(folders) on a parsed number
InRange(num, n) == num > 0 /\ num <= n

\* variant of JumpScan that compares base names only
RECURSIVE JumpScanMut(_, _)
JumpScanMut(list, tok) ==
    IF list = <<>> THEN [found |-> FALSE, path |-> <<>>]
    ELSE IF Base(Head(list)) = tok
         THEN [found |-> TRUE, path |-> Head(list)]
         ELSE JumpScanMut(Tail(list), tok)

\* jumpToFolder's scan: the first folder matching by base name or full path
RECURSIVE JumpScan(_, _)
JumpScan(list, tok) ==
    IF list = <<>> THEN [found |-> FALSE, path |-> <<>>]
    ELSE IF Base(Head(list)) = tok \/ Head(list) = tok
         THEN [found |-> TRUE, path |-> Head(list)]
         ELSE JumpScan(Tail(list), tok)

\* what jumpToFolder prints for a loaded list and a token, if anything
JumpTarget(list, tok) ==
    LET a == Atoi(tok)
    IN  IF a.ok /\ InRange(a.num, Len(list))
        THEN [found |-> TRUE, path |-> list[(a.num - 1) + 1]]
        ELSE JumpScan(list, tok)

\* variant of RemoveScan that compares base names only
RECURSIVE RemoveScanMut(_, _, _)
RemoveScanMut(list, tok, i) ==
    IF i >= Len(list) THEN -1
    ELSE IF Base(list[i + 1]) = tok THEN i
    ELSE RemoveScanMut(list, tok, i + 1)

\* removeFolder's scan from 0-based position i: the first matching position,
\* -1 when the loop ends without a match
RECURSIVE RemoveScan(_, _, _)
RemoveScan(list, tok, i) ==
    IF i >= Len(list) THEN -1
    ELSE IF Base(list[i + 1]) = tok \/ list[i + 1] = tok THEN i
    ELSE RemoveScan(list, tok, i + 1)

\* variant of RemoveIndex whose indexToRemove starts at 0 instead of -1
RemoveIndexMut(list, tok) ==
    LET a == Atoi(tok)
        r == RemoveScan(list, tok, 0)
    IN  IF a.ok /\ InRange(a.num, Len(list)) THEN a.num - 1
        ELSE IF r = -1 THEN 0 ELSE r

\* indexToRemove (0-based, -1 for none) for a loaded list and a token
RemoveIndex(list, tok) ==
    LET a == Atoi(tok)
    IN  IF a.ok /\ InRange(a.num, Len(list)) THEN a.num - 1
        ELSE RemoveScan(list, tok, 0)

\* variant of RemoveAt that resumes one element too late
RemoveAtMut(list, i) == SubSeq(list, 1, i) \o SubSeq(list, i + 3, Len(list))

\* append(folders[:i], folders[i+1:]...) for a 0-based i
RemoveAt(list, i) == SubSeq(list, 1, i) \o SubSeq(list, i + 2, Len(list))

(***************************************************************************)
(* Output                                                                  *)
(***************************************************************************)
\* text of an operating system error, as printed by %v
IOErrText == "<error>"

\* variant of fmtPrint that ends the line, as fmt.Println does
fmtPrintMut(s) == s \o <<"\n">>

\* fmt.Print of one string: the string and nothing else
fmtPrint(s) == s

\* fmt.Println of one literal
fmtPrintln(msg) == <<msg, "\n">>

\* fmt.Printf("<literal>%s\n", s), also used with os.Stderr
fmtPrintf(msg, s) == <<msg>> \o s \o <<"\n">>

\* variant of ListLine that prints the 0-based position
ListLineMut(i, folder) == Itoa(i) \o <<".", " ">> \o folder \o <<"\n">>

\* fmt.Printf("%d. %s\n", i+1, folder) for the 0-based position i
ListLine(i, folder) == Itoa(i + 1) \o <<".", " ">> \o folder \o <<"\n">>

\* the printing loop of listFolders from 0-based position i
RECURSIVE ListLoop(_, _)
ListLoop(list, i) ==
    IF i >= Len(list) THEN <<>>
    ELSE ListLine(i, list[i + 1]) \o ListLoop(list, i + 1)

(***************************************************************************)
(* State                                                                   *)
(***************************************************************************)
VARIABLES
    file,      \* content of the store file ~/.jumper/folders, as bytes
    before,    \* content of the store file when the last invocation began
    verb,      \* operation of the last invocation
    arg,       \* its working directory (add) or token (jump, remove)
    folders,   \* the list it loaded (empty when the load failed)
    out,       \* what it wrote to standard output
    errs,      \* what it wrote to standard error
    exit,      \* its exit status
    ioerr,     \* the file operation that failed in it, "none" if none did
    exists,    \* whether the store file exists
    proc,      \* the invocations running as processes, each with its locals
    committed  \* the lists the store held after each completed mutation

\* the record of the last invocation, when invocations run one at a time
seqVars == <<before, verb, arg, folders, out, errs, exit, ioerr>>

\* the state of the invocations that run as processes
procVars == <<exists, proc, committed>>

vars == <<file, before, verb, arg, folders, out, errs, exit, ioerr,
          exists, proc, committed>>

\* the invocations that may run at the same time
Procs == {"p1", "p2"}

\* the locals of an invocation that has not started
IdleProc ==
    [pc |-> "idle", args |-> <<>>, missing |-> FALSE, verb |-> "none",
     tok |-> <<>>, cwd |-> <<>>, loaded |-> FALSE, list |-> <<>>,
     kept |-> <<>>, removed |-> <<>>, written |-> 0, off |-> 0,
     out |-> <<>>, errs |-> <<>>, exit |-> 0]

\* the store file has just been created empty by main
Init ==
    /\ file = <<>>
    /\ before = <<>>
    /\ verb = "none"
    /\ arg = <<>>
    /\ folders = <<>>
    /\ out = <<>>
    /\ errs = <<>>
    /\ exit = 0
    /\ ioerr = "none"
    /\ exists = TRUE
    /\ proc = [p \in Procs |-> IdleProc]
    /\ committed = {<<>>}

\* variant of Contains whose loop starts at the second folder
ContainsMut(list, d) == \E i \in 2..Len(list) : list[i] = d

\* the range loop of addFolder: is currentDir already in the list
Contains(list, d) == \E i \in 1..Len(list) : list[i] = d

\* what every invocation records when it starts
Begin(v, a) ==
    /\ before' = file
    /\ verb' = v
    /\ arg' = a
    /\ UNCHANGED procVars

(***************************************************************************)
(* Operations, all file operations succeeding                              *)
(***************************************************************************)
addFolder(currentDir) ==
    LET list == readFolderList(file)
    IN  /\ Begin("add", currentDir)
        /\ folders' = list
        /\ ioerr' = "none"
        /\ errs' = <<>>
        /\ exit' = 0
        /\ IF Contains(list, currentDir)
           THEN /\ out' = fmtPrintf("Current folder already in the list: ",
                                  currentDir)
                /\ file' = file
           ELSE /\ Len(file) + Len(currentDir) + 1 <= MaxFileLen
                /\ file' = file \o currentDir \o <<"\n">>
                /\ out' = fmtPrintf("Added current folder to jump list: ",
                                  currentDir)

jumpToFolder(tok) ==
    LET list == readFolderList(file)
        t == JumpTarget(list, tok)
    IN  /\ Begin("jump", tok)
        /\ folders' = list
        /\ ioerr' = "none"
        /\ errs' = <<>>
        /\ file' = file
        /\ IF t.found
           THEN out' = fmtPrint(t.path) /\ exit' = 0
           ELSE out' = <<>> /\ exit' = 1

listFolders ==
    LET list == readFolderList(file)
    IN  /\ Begin("list", <<>>)
        /\ folders' = list
        /\ ioerr' = "none"
        /\ errs' = <<>>
        /\ exit' = 0
        /\ file' = file
        /\ IF Len(list) = 0
           THEN out' = fmtPrintln("No folders in jump list. Use 'jumper add' to add the current folder.")
           ELSE out' = fmtPrintln("Available folders:") \o ListLoop(list, 0)

removeFolder(tok) ==
    LET list == readFolderList(file)
        indexToRemove == RemoveIndex(list, tok)
    IN  /\ Begin("remove", tok)
        /\ folders' = list
        /\ ioerr' = "none"
        /\ IF Len(list) = 0
           THEN /\ out' = fmtPrintln("No folders in jump list.")
                /\ errs' = <<>>
                /\ exit' = 0
                /\ file' = file
           ELSE IF indexToRemove = -1
           THEN /\ out' = <<>>
                /\ errs' = fmtPrintf("Folder not found: ", tok)
                /\ exit' = 1
                /\ file' = file
           ELSE /\ file' = WriteLines(RemoveAt(list, indexToRemove))
                /\ out' = fmtPrintf("Removed folder: ", list[indexToRemove + 1])
                /\ errs' = <<>>
                /\ exit' = 0

Next ==
    \/ \E d \in WorkDirs : addFolder(d)
    \/ \E t \in Tokens : jumpToFolder(t)
    \/ listFolders
    \/ \E t \in Tokens : removeFolder(t)

Spec == Init /\ [][Next]_vars

(***************************************************************************)
(* Operations in which one file operation fails                            *)
(***************************************************************************)
\* an invocation that stops on a failed file operation, the file untouched
Fails(at, msg) ==
    /\ ioerr' = at
    /\ out' = <<>>
    /\ errs' = IF msg = "" THEN <<>> ELSE fmtPrintf(msg, <<IOErrText>>)
    /\ exit' = 1

\* addFolder when readFolderList returns an error
addFolderReadErr(currentDir) ==
    /\ Begin("add", currentDir)
    /\ folders' = <<>>
    /\ file' = file
    /\ Fails("read", "Error reading folder list: ")

\* addFolder when os.OpenFile for appending fails
addFolderOpenErr(currentDir) ==
    LET list == readFolderList(file)
    IN  /\ ~Contains(list, currentDir)
        /\ Begin("add", currentDir)
        /\ folders' = list
        /\ file' = file
        /\ Fails("open", "Error opening config file: ")

\* addFolder when WriteString fails; a WriteString that fails is taken to
\* have written none of its bytes
addFolderWriteErr(currentDir) ==
    LET list == readFolderList(file)
    IN  /\ ~Contains(list, currentDir)
        /\ Begin("add", currentDir)
        /\ folders' = list
        /\ file' = file
        /\ Fails("write", "Error writing to config file: ")

\* jumpToFolder when readFolderList returns an error: silent exit
jumpToFolderReadErr(tok) ==
    /\ Begin("jump", tok)
    /\ folders' = <<>>
    /\ file' = file
    /\ Fails("read", "")

\* listFolders when readFolderList returns an error
listFoldersReadErr ==
    /\ Begin("list", <<>>)
    /\ folders' = <<>>
    /\ file' = file
    /\ Fails("read", "Error reading folder list: ")

\* removeFolder when readFolderList returns an error
removeFolderReadErr(tok) ==
    /\ Begin("remove", tok)
    /\ folders' = <<>>
    /\ file' = file
    /\ Fails("read", "Error reading folder list: ")

\* removeFolder when os.Create fails: nothing was truncated
removeFolderCreateErr(tok) ==
    LET list == readFolderList(file)
    IN  /\ Len(list) # 0
        /\ RemoveIndex(list, tok) # -1
        /\ Begin("remove", tok)
        /\ folders' = list
        /\ file' = file
        /\ Fails("open", "Error opening config file: ")

\* removeFolder when, after os.Create truncated the file, the WriteString
\* for the entry at position k+1 of the new list fails, the k entries before
\* it written
removeFolderWriteErr(tok, k) ==
    LET list == readFolderList(file)
        indexToRemove == RemoveIndex(list, tok)
        kept == RemoveAt(list, indexToRemove)
    IN  /\ Len(list) # 0
        /\ indexToRemove # -1
        /\ k \in 0..(Len(kept) - 1)
        /\ Begin("remove", tok)
        /\ folders' = list
        /\ file' = WriteLines(SubSeq(kept, 1, k))
        /\ Fails("write", "Error writing to config file: ")

NextIO ==
    \/ Next
    \/ \E d \in WorkDirs : addFolderReadErr(d)
    \/ \E d \in WorkDirs : addFolderOpenErr(d)
    \/ \E d \in WorkDirs : addFolderWriteErr(d)
    \/ \E t \in Tokens : jumpToFolderReadErr(t)
    \/ listFoldersReadErr
    \/ \E t \in Tokens : removeFolderReadErr(t)
    \/ \E t \in Tokens : removeFolderCreateErr(t)
    \/ \E t \in Tokens : \E k \in 0..MaxFileLen : removeFolderWriteErr(t, k)

\* the program with file operations that may fail
SpecIO == Init /\ [][NextIO]_vars

(***************************************************************************)
(* Invocations as processes: main and the handlers step by step, a step    *)
(* being one access to the store file together with the local computation  *)
(* that follows it.  File operations succeed here.                         *)
(***************************************************************************)
ProgName == <<"jumper">>
StrAdd == <<"a", "d", "d">>
StrList == <<"l", "i", "s", "t">>
StrSetup == <<"s", "e", "t", "u", "p">>
StrRemove == <<"r", "e", "m", "o", "v", "e">>

\* tokens given to jump and remove by the invocations run as processes
ProcTokens == {<<"1">>, <<"a">>}

\* the command lines (os.Args) of the invocations run as processes
ArgLists ==
    {<<ProgName>>, <<ProgName, StrAdd>>, <<ProgName, StrList>>,
     <<ProgName, StrSetup>>, <<ProgName, StrRemove>>}
    \cup {<<ProgName, StrRemove, t>> : t \in ProcTokens}
    \cup {<<ProgName, t>> : t \in ProcTokens}

\* working directories of the invocations run as processes
ProcDirs == {DirA, DirBA, DirASp}

\* store contents an invocation run as a process may find when it starts
InitContents == {<<>>, WriteLines(<<DirBA>>), WriteLines(<<DirBA, Dir2>>)}

\* what setupJumper may find: jumper.sh cannot be written, no shell init
\* file exists, the first one found already sources the script, or the
\* source line is appended to it
SetupOutcomes == {"fail", "none", "present", "added"}

\* variant of Route that looks at the verb before the number of arguments
\* and takes a remove without token for a jump
RouteMut(args) ==
    IF Len(args) < 2 THEN "usage"
    ELSE IF args[2] = StrAdd THEN "add"
    ELSE IF args[2] = StrList THEN "list"
    ELSE IF args[2] = StrSetup THEN "setup"
    ELSE IF args[2] = StrRemove /\ Len(args) >= 3 THEN "remove"
    ELSE "jump"

\* the switch of main on os.Args
Route(args) ==
    IF Len(args) < 2 THEN "usage"
    ELSE IF args[2] = StrAdd THEN "add"
    ELSE IF args[2] = StrList THEN "list"
    ELSE IF args[2] = StrSetup THEN "setup"
    ELSE IF args[2] = StrRemove
         THEN (IF Len(args) < 3 THEN "usageRemove" ELSE "remove")
    ELSE "jump"

\* n zero bytes, the hole left by a write beyond the end of a file
RECURSIVE Zeros(_)
Zeros(n) == IF n <= 0 THEN <<>> ELSE <<"NUL">> \o Zeros(n - 1)

\* a write of bytes at offset off of a file opened without O_APPEND
WriteAt(data, off, bytes) ==
    IF off > Len(data) THEN data \o Zeros(off - Len(data)) \o bytes
    ELSE SubSeq(data, 1, off) \o bytes
         \o SubSeq(data, off + Len(bytes) + 1, Len(data))

\* the store file is absent (first run) or holds what earlier runs left
InitProc ==
    /\ exists \in BOOLEAN
    /\ file \in InitContents
    /\ ~exists => file = <<>>
    /\ before = <<>>
    /\ verb = "none"
    /\ arg = <<>>
    /\ folders = <<>>
    /\ out = <<>>
    /\ errs = <<>>
    /\ exit = 0
    /\ ioerr = "none"
    /\ proc = [p \in Procs |-> IdleProc]
    /\ committed = {readFolderList(file)}

\* process p ends with the given additions to its locals
Done(p, l) == proc' = [proc EXCEPT ![p] = [l EXCEPT !.pc = "done"]]

\* main up to the os.Stat of the store file
mainStat(p, args) ==
    /\ proc[p].pc = "idle"
    /\ proc' = [proc EXCEPT ![p] =
                   [@ EXCEPT !.args = args, !.missing = ~exists,
                             !.pc = IF exists THEN "dispatch" ELSE "create"]]
    /\ UNCHANGED <<file, exists, committed, seqVars>>

\* main's os.Create of the store file after os.Stat found none
mainCreate(p) ==
    /\ proc[p].pc = "create"
    /\ file' = <<>>
    /\ exists' = TRUE
    /\ proc' = [proc EXCEPT ![p].pc = "dispatch"]
    /\ UNCHANGED <<committed, seqVars>>

\* main's argument check and switch
mainDispatch(p) ==
    LET l == proc[p]
        r == Route(l.args)
    IN  /\ l.pc = "dispatch"
        /\ IF r = "usage"
           THEN Done(p, [l EXCEPT !.verb = r, !.exit = 1,
                           !.errs = fmtPrintln("Usage: jumper <command>")])
           ELSE IF r = "usageRemove"
           THEN Done(p, [l EXCEPT !.verb = r, !.exit = 1,
                           !.errs = fmtPrintln("Usage: jumper remove <folder-name-or-number>")])
           ELSE proc' = [proc EXCEPT ![p] =
                            [l EXCEPT !.verb = r, !.pc = r,
                                      !.tok = IF r = "remove" THEN l.args[3]
                                              ELSE IF r = "jump" THEN l.args[2]
                                              ELSE <<>>]]
        /\ UNCHANGED <<file, exists, committed, seqVars>>

\* addFolder up to the end of its range loop
procAddLoad(p, currentDir) ==
    LET l == proc[p]
        list == readFolderList(file)
        m == [l EXCEPT !.cwd = currentDir, !.loaded = TRUE, !.list = list]
    IN  /\ l.pc = "add"
        /\ IF Contains(list, currentDir)
           THEN Done(p, [m EXCEPT !.out = fmtPrintf("Current folder already in the list: ", currentDir)])
           ELSE proc' = [proc EXCEPT ![p] = [m EXCEPT !.pc = "append"]]
        /\ UNCHANGED <<file, exists, committed, seqVars>>

\* addFolder's WriteString on the file opened with O_APPEND
procAddAppend(p) ==
    LET l == proc[p]
    IN  /\ l.pc = "append"
        /\ file' = file \o l.cwd \o <<"\n">>
        /\ committed' = committed \cup {readFolderList(file')}
        /\ Done(p, [l EXCEPT !.out = fmtPrintf("Added current folder to jump list: ", l.cwd)])
        /\ UNCHANGED <<exists, seqVars>>

\* jumpToFolder
procJump(p) ==
    LET l == proc[p]
        list == readFolderList(file)
        t == JumpTarget(list, l.tok)
        m == [l EXCEPT !.loaded = TRUE, !.list = list]
    IN  /\ l.pc = "jump"
        /\ IF t.found THEN Done(p, [m EXCEPT !.out = fmtPrint(t.path)])
           ELSE Done(p, [m EXCEPT !.exit = 1])
        /\ UNCHANGED <<file, exists, committed, seqVars>>

\* listFolders
procList(p) ==
    LET l == proc[p]
        list == readFolderList(file)
        m == [l EXCEPT !.loaded = TRUE, !.list = list]
    IN  /\ l.pc = "list"
        /\ IF Len(list) = 0
           THEN Done(p, [m EXCEPT !.out = fmtPrintln("No folders in jump list. Use 'jumper add' to add the current folder.")])
           ELSE Done(p, [m EXCEPT !.out = fmtPrintln("Available folders:")
                                          \o ListLoop(list, 0)])
        /\ UNCHANGED <<file, exists, committed, seqVars>>

\* setupJumper: it writes jumper.sh and a shell init file, never the store
procSetup(p, outcome) ==
    LET l == proc[p]
        rc == IF outcome = "present"
              THEN fmtPrintf("Jumper configuration already exists in ",
                             <<".bashrc">>)
              ELSE IF outcome = "added"
              THEN fmtPrintf("Added jumper configuration to ", <<".bashrc">>)
              ELSE <<>>
    IN  /\ l.pc = "setup"
        /\ IF outcome = "fail"
           THEN Done(p, [l EXCEPT !.exit = 1,
                           !.errs = fmtPrintf("Error creating jumper.sh: ",
                                              <<IOErrText>>)])
           ELSE Done(p, [l EXCEPT !.out = rc
                           \o fmtPrintln("Setup complete! Please restart your shell or run:")
                           \o fmtPrintf("source ", <<"~/.jumper/jumper.sh">>)])
        /\ UNCHANGED <<file, exists, committed, seqVars>>

\* removeFolder up to the removal from the in-memory list
procRemoveLoad(p) ==
    LET l == proc[p]
        list == readFolderList(file)
        indexToRemove == RemoveIndex(list, l.tok)
        m == [l EXCEPT !.loaded = TRUE, !.list = list]
    IN  /\ l.pc = "remove"
        /\ IF Len(list) = 0
           THEN Done(p, [m EXCEPT !.out = fmtPrintln("No folders in jump list.")])
           ELSE IF indexToRemove = -1
           THEN Done(p, [m EXCEPT !.exit = 1,
                           !.errs = fmtPrintf("Folder not found: ", l.tok)])
           ELSE proc' = [proc EXCEPT ![p] =
                            [m EXCEPT !.pc = "truncate",
                                      !.removed = list[indexToRemove + 1],
                                      !.kept = RemoveAt(list, indexToRemove)]]
        /\ UNCHANGED <<file, exists, committed, seqVars>>

\* removeFolder's os.Create, which truncates the store, and with nothing
\* left to write the end of removeFolder
procRemoveCreate(p) ==
    LET l == proc[p]
    IN  /\ l.pc = "truncate"
        /\ file' = <<>>
        /\ IF l.kept = <<>>
           THEN /\ Done(p, [l EXCEPT !.out = fmtPrintf("Removed folder: ",
                                                        l.removed)])
                /\ committed' = committed \cup {<<>>}
           ELSE /\ proc' = [proc EXCEPT ![p] =
                               [l EXCEPT !.pc = "write", !.written = 0,
                                         !.off = 0]]
                /\ committed' = committed
        /\ UNCHANGED <<exists, seqVars>>

\* one WriteString of removeFolder's write loop, at the offset the file
\* descriptor has reached, and after the last one the end of removeFolder
procRemoveWrite(p) ==
    LET l == proc[p]
        bytes == l.kept[l.written + 1] \o <<"\n">>
        m == [l EXCEPT !.written = l.written + 1,
                       !.off = l.off + Len(bytes)]
    IN  /\ l.pc = "write"
        /\ file' = WriteAt(file, l.off, bytes)
        /\ IF m.written = Len(l.kept)
           THEN /\ Done(p, [m EXCEPT !.out = fmtPrintf("Removed folder: ",
                                                        l.removed)])
                /\ committed' = committed \cup {readFolderList(file')}
           ELSE /\ proc' = [proc EXCEPT ![p] = m]
                /\ committed' = committed
        /\ UNCHANGED <<exists, seqVars>>

\* invocations that overlap in any way
NextProc ==
    \/ \E p \in Procs : \E a \in ArgLists : mainStat(p, a)
    \/ \E p \in Procs : mainCreate(p)
    \/ \E p \in Procs : mainDispatch(p)
    \/ \E p \in Procs : \E d \in ProcDirs : procAddLoad(p, d)
    \/ \E p \in Procs : procAddAppend(p)
    \/ \E p \in Procs : procJump(p)
    \/ \E p \in Procs : procList(p)
    \/ \E p \in Procs : \E o \in SetupOutcomes : procSetup(p, o)
    \/ \E p \in Procs : procRemoveLoad(p)
    \/ \E p \in Procs : procRemoveCreate(p)
    \/ \E p \in Procs : procRemoveWrite(p)

SpecProc == InitProc /\ [][NextProc]_vars

\* no other invocation is between its start and its end
Alone(p) == \A q \in Procs \ {p} : proc[q].pc \in {"idle", "done"}

\* invocations that run one after the other
NextMain ==
    \/ \E p \in Procs : \E a \in ArgLists : Alone(p) /\ mainStat(p, a)
    \/ \E p \in Procs : Alone(p) /\ mainCreate(p)
    \/ \E p \in Procs : Alone(p) /\ mainDispatch(p)
    \/ \E p \in Procs : \E d \in ProcDirs : Alone(p) /\ procAddLoad(p, d)
    \/ \E p \in Procs : Alone(p) /\ procAddAppend(p)
    \/ \E p \in Procs : Alone(p) /\ procJump(p)
    \/ \E p \in Procs : Alone(p) /\ procList(p)
    \/ \E p \in Procs : \E o \in SetupOutcomes : Alone(p) /\ procSetup(p, o)
    \/ \E p \in Procs : Alone(p) /\ procRemoveLoad(p)
    \/ \E p \in Procs : Alone(p) /\ procRemoveCreate(p)
    \/ \E p \in Procs : Alone(p) /\ procRemoveWrite(p)

SpecMain == InitProc /\ [][NextMain]_vars

(***************************************************************************)
(* Loading any file content: the store file holds an arbitrary text, as    *)
(* left by an editor or another program, and the invocations that only     *)
(* read it run on it                                                       *)
(***************************************************************************)
\* the bytes a store file is made of
LoadAlphabet == {"/", "a", " ", "\n", "\r"}

\* every text over the alphabet of at most MaxLoadLen bytes
FileContents == UNION {[1..k -> LoadAlphabet] : k \in 0..MaxLoadLen}

InitLoad ==
    /\ file \in FileContents
    /\ before = <<>>
    /\ verb = "none"
    /\ arg = <<>>
    /\ folders = <<>>
    /\ out = <<>>
    /\ errs = <<>>
    /\ exit = 0
    /\ ioerr = "none"
    /\ exists = TRUE
    /\ proc = [p \in Procs |-> IdleProc]
    /\ committed = {readFolderList(file)}

NextLoad ==
    \/ listFolders
    \/ \E t \in Tokens : jumpToFolder(t)

SpecLoad == InitLoad /\ [][NextLoad]_vars

(***************************************************************************)
(* Properties                                                              *)
(***************************************************************************)
\* the list the store file loads as, before and after the last invocation
Loaded == readFolderList(file)
LoadedBefore == readFolderList(before)

\* the positions of a list holding the path p
Occurrences(list, p) == {i \in 1..Len(list) : list[i] = p}

NoDuplicates(list) ==
    \A i, j \in 1..Len(list) : list[i] = list[j] => i = j

\* tok is a decimal numeral of n, with or without a plus sign
DecimalOf(tok, n) == tok = Itoa(n) \/ tok = <<"+">> \o Itoa(n)

\* tok is a number that is a position of the list
IsIndexOf(tok, list) == \E n \in 1..Len(list) : DecimalOf(tok, n)

\* the positions of a list whose base name or full path is tok
Matching(list, tok) ==
    {i \in 1..Len(list) : Base(list[i]) = tok \/ list[i] = tok}

Smallest(S) == CHOOSE i \in S : \A j \in S : i <= j

\* C1: an add from d that follows a successful add from d does not write to
\* the store, and the store then holds exactly one entry for d.
C1_AddTwiceOneEntry ==
    [][(/\ verb = "add" /\ exit = 0
        /\ verb' = "add" /\ exit' = 0
        /\ arg' = arg)
       => (/\ file' = file
           /\ Cardinality(Occurrences(readFolderList(file'), arg)) = 1)]_vars

\* C2: the list loaded from the store never holds the same path at two
\* different positions.
C2_NoDuplicatePaths == NoDuplicates(Loaded)

\* C3: a successful remove that resolved its token to position i of the
\* loaded list L leaves a store that loads as L without its element i:
\* entries below i keep position and value, entries above i move down by
\* one, the length drops by one, and when L had no duplicates the removed
\* path is gone.
C3_RemoveShiftsByOne ==
    (verb = "remove" /\ exit = 0 /\ folders # <<>>) =>
        LET L == folders
            i == RemoveIndex(L, arg) + 1
        IN  /\ L = LoadedBefore
            /\ i \in 1..Len(L)
            /\ Len(Loaded) = Len(L) - 1
            /\ \A j \in 1..(i - 1) : Loaded[j] = L[j]
            /\ \A j \in (i + 1)..Len(L) : Loaded[j - 1] = L[j]
            /\ NoDuplicates(L) => Occurrences(Loaded, L[i]) = {}

\* C3 witness: the middle entry of a list of three was removed
C3_Witness ==
    /\ verb = "remove" /\ exit = 0
    /\ Len(folders) = 3
    /\ RemoveIndex(folders, arg) = 1
    /\ Len(Loaded) = 2

\* C4: a token that is the number n of a position of the loaded list makes
\* jump print the entry at position n and remove delete the entry at
\* position n, whatever entries match the token by base name or full path.
C4_IndexResolution ==
    \A n \in 1..Len(folders) :
        (DecimalOf(arg, n) /\ ioerr = "none") =>
            /\ verb = "jump" => (exit = 0 /\ out = folders[n])
            /\ verb = "remove" =>
                   /\ exit = 0
                   /\ out = <<"Removed folder: ">> \o folders[n] \o <<"\n">>
                   /\ Loaded = SubSeq(folders, 1, n - 1)
                               \o SubSeq(folders, n + 1, Len(folders))

\* C4 witness: jump 2 printed the second entry although the first entry has
\* the base name 2
C4_Witness ==
    /\ verb = "jump" /\ arg = <<"2">>
    /\ Len(folders) >= 2
    /\ Base(folders[1]) = arg
    /\ folders[2] # folders[1]
    /\ out = folders[2]

\* C5: a token that is not the number of a position of the loaded list
\* resolves to the entry at the smallest position whose base name or full
\* path equals the token, and is not found exactly when there is no such
\* position; this holds for jump and for remove on a list that is not empty.
C5_FirstMatchWins ==
    (ioerr = "none" /\ ~IsIndexOf(arg, folders)) =>
        LET M == Matching(folders, arg)
        IN  /\ verb = "jump" =>
                   IF M = {} THEN exit # 0 /\ out = <<>>
                   ELSE exit = 0 /\ out = folders[Smallest(M)]
            /\ (verb = "remove" /\ folders # <<>>) =>
                   IF M = {}
                   THEN exit # 0 /\ Loaded = folders
                   ELSE /\ exit = 0
                        /\ out = <<"Removed folder: ">>
                                 \o folders[Smallest(M)] \o <<"\n">>
                        /\ Loaded = SubSeq(folders, 1, Smallest(M) - 1)
                                    \o SubSeq(folders, Smallest(M) + 1,
                                              Len(folders))

\* C5 witness: jump a printed the first of two entries with base name a
C5_Witness ==
    /\ verb = "jump" /\ arg = <<"a">>
    /\ Cardinality(Matching(folders, arg)) >= 2
    /\ folders[1] # folders[2]
    /\ out = folders[1]

\* the token is neither the number of a position nor the base name or full
\* path of an entry
Unresolvable(list, tok) == ~IsIndexOf(tok, list) /\ Matching(list, tok) = {}

NotFoundMessage == <<"Folder not found: ">> \o arg \o <<"\n">>

\* C6 as stated: on every store content, the empty store included, a remove
\* whose token resolves to nothing ends with the not-found message on
\* standard error and a non-zero exit status, the store unchanged.
C6_FailedRemoveAnyStore ==
    (verb = "remove" /\ ioerr = "none" /\ Unresolvable(folders, arg)) =>
        /\ exit # 0
        /\ errs = NotFoundMessage
        /\ file = before

\* C6 amended: on a store that is not empty, a remove whose token resolves
\* to nothing ends with the not-found message naming the token on standard
\* error, nothing on standard output and a non-zero exit status; on an empty
\* store every remove prints "No folders in jump list." on standard output,
\* nothing on standard error, and exits 0; in both cases the store file is
\* left as it was.
C6_FailedRemove ==
    (verb = "remove" /\ ioerr = "none" /\ Unresolvable(folders, arg)) =>
        /\ folders = LoadedBefore
        /\ file = before
        /\ IF folders # <<>>
           THEN exit # 0 /\ errs = NotFoundMessage /\ out = <<>>
           ELSE /\ exit = 0 /\ errs = <<>>
                /\ out = <<"No folders in jump list.", "\n">>

\* C6 witness: remove 3 on a list of two entries, neither of them named 3
C6_Witness ==
    /\ verb = "remove" /\ arg = <<"3">>
    /\ Len(folders) = 2
    /\ ioerr = "none"
    /\ exit # 0

\* C7: a jump ends either with exit status 0 and standard output exactly
\* the path of a loaded entry the token resolves to (not empty, nothing
\* before or after it, no newline), or with a non-zero exit status and
\* nothing on standard output.
C7_JumpOutput ==
    verb = "jump" =>
        \/ /\ exit = 0
           /\ out # <<>>
           /\ \E i \in 1..Len(folders) :
                  /\ out = folders[i]
                  /\ DecimalOf(arg, i) \/ Base(folders[i]) = arg
                                       \/ folders[i] = arg
           /\ \A k \in 1..Len(out) : out[k] # "\n"
        \/ /\ exit # 0
           /\ out = <<>>

\* C7 witness: a jump by name that printed the second entry
C7_Witness ==
    /\ verb = "jump" /\ exit = 0
    /\ Len(folders) >= 2
    /\ arg = <<"/", "b", "/", "a">>
    /\ out = folders[2]

\* the lines of standard output, every one of them ended by a newline
RECURSIVE OutLines(_)
OutLines(s) ==
    IF s = <<>> THEN <<>>
    ELSE LET i == CHOOSE k \in 1..(Len(s) + 1) :
                      /\ k = Len(s) + 1 \/ s[k] = "\n"
                      /\ \A j \in 1..(k - 1) : s[j] # "\n"
         IN  IF i = Len(s) + 1 THEN <<s>>
             ELSE <<SubSeq(s, 1, i - 1)>> \o OutLines(SubSeq(s, i + 1, Len(s)))

EndsWithNewline(s) == s # <<>> /\ s[Len(s)] = "\n"

\* line k of a listing: the 1-based position, a dot, a blank, the path
IndexedLine(k) == Itoa(k) \o <<".", " ">> \o folders[k]

GuidanceLine ==
    <<"No folders in jump list. Use 'jumper add' to add the current folder.">>

\* C8 as stated: list on an empty store prints the guidance message and
\* exits 0; on a store of n entries its output is n lines, line k being
\* 'k. <path k>'.
C8_ListLinesOnly ==
    (verb = "list" /\ ioerr = "none") =>
        /\ exit = 0
        /\ EndsWithNewline(out)
        /\ IF folders = <<>> THEN OutLines(out) = <<GuidanceLine>>
           ELSE /\ Len(OutLines(out)) = Len(folders)
                /\ \A k \in 1..Len(folders) : OutLines(out)[k] = IndexedLine(k)

\* C8 amended: list on an empty store prints the guidance message and exits
\* 0; on a store of n entries it prints the header line "Available folders:"
\* and then the n entries in stored order, output line k+1 being
\* 'k. <path k>', and exits 0.
C8_ListOutput ==
    (verb = "list" /\ ioerr = "none") =>
        /\ exit = 0
        /\ errs = <<>>
        /\ folders = LoadedBefore
        /\ EndsWithNewline(out)
        /\ IF folders = <<>> THEN OutLines(out) = <<GuidanceLine>>
           ELSE /\ Len(OutLines(out)) = Len(folders) + 1
                /\ OutLines(out)[1] = <<"Available folders:">>
                /\ \A k \in 1..Len(folders) :
                       OutLines(out)[k + 1] = IndexedLine(k)

\* C8 witness: a listing of two different entries
C8_Witness ==
    /\ verb = "list" /\ exit = 0
    /\ Len(folders) = 2
    /\ folders[1] # folders[2]
    /\ Len(OutLines(out)) = 3

\* C9: after a successful add from a working directory that is not in the
\* loaded list L, the store loads as L followed by that directory.
C9_AddAppendsWorkDir ==
    (verb = "add" /\ exit = 0 /\ Occurrences(folders, arg) = {}) =>
        Loaded = folders \o <<arg>>

\* the list an add or remove invocation is meant to leave in the store
Intended ==
    LET L == LoadedBefore
    IN  IF verb = "add" THEN (IF Occurrences(L, arg) = {} THEN L \o <<arg>> ELSE L)
        ELSE IF L = <<>> \/ Unresolvable(L, arg) THEN L
        ELSE LET i == IF IsIndexOf(arg, L)
                      THEN CHOOSE n \in 1..Len(L) : DecimalOf(arg, n)
                      ELSE Smallest(Matching(L, arg))
             IN  SubSeq(L, 1, i - 1) \o SubSeq(L, i + 1, Len(L))

\* C10: when an add or a remove stops on a failed file operation, the store
\* loads as the complete list from before the invocation or as the complete
\* list the invocation was meant to leave.
C10_NoPartialState ==
    (verb \in {"add", "remove"} /\ ioerr # "none") =>
        Loaded = LoadedBefore \/ Loaded = Intended

\* every invocation run as a process has ended
AllDone == \A p \in Procs : proc[p].pc = "done"

\* process a is an add that reported the append of its working directory
AddedBy(a) ==
    /\ proc[a].pc = "done" /\ proc[a].verb = "add" /\ proc[a].exit = 0
    /\ proc[a].out = <<"Added current folder to jump list: ">>
                     \o proc[a].cwd \o <<"\n">>

\* process r is a remove that reported the removal of an entry
RemovedBy(r) ==
    /\ proc[r].pc = "done" /\ proc[r].verb = "remove" /\ proc[r].exit = 0
    /\ proc[r].out = <<"Removed folder: ">> \o proc[r].removed \o <<"\n">>

\* the entry an add from the working directory d is loaded as
EntryOf(d) == TrimSpace(d)

\* an add and a remove of another entry both reported success, and the
\* entry of the add is not in the store
LostUpdate(a, r) ==
    /\ AddedBy(a) /\ RemovedBy(r)
    /\ proc[r].removed # EntryOf(proc[a].cwd)
    /\ Occurrences(Loaded, EntryOf(proc[a].cwd)) = {}

\* C11: a lost update is reachable (the witness), and whenever an add and a
\* remove of another entry both report success while the added entry is
\* missing from the store, the remove had loaded its list before the add
\* appended: the list it rewrote the file from does not hold the entry.
C11_LostUpdateIsStaleRewrite ==
    \A a, r \in Procs :
        LostUpdate(a, r) =>
            Occurrences(proc[r].list, EntryOf(proc[a].cwd)) = {}

\* C11 witness: add from /a and remove 1 both succeeded, /a is not stored
C11_Witness ==
    \E a, r \in Procs :
        /\ LostUpdate(a, r)
        /\ proc[a].cwd = DirA
        /\ proc[r].tok = <<"1">>
        /\ AllDone

\* the first piece of a stream, the empty string for an empty stream
FirstPiece(s) == IF s = <<>> THEN "" ELSE s[1]

\* what an invocation that ended shows of the operation it ran
RanAdd(l) ==
    /\ l.loaded
    /\ FirstPiece(l.out) \in {"Added current folder to jump list: ",
                              "Current folder already in the list: "}

RanList(l) ==
    /\ l.loaded
    /\ FirstPiece(l.out) \in
           {"Available folders:",
            "No folders in jump list. Use 'jumper add' to add the current folder."}

RanSetup(l) ==
    /\ ~l.loaded
    /\ \/ l.exit = 0 /\ \E k \in 1..Len(l.out) :
              l.out[k] = "Setup complete! Please restart your shell or run:"
       \/ l.exit # 0 /\ FirstPiece(l.errs) = "Error creating jumper.sh: "

RanRemove(l, tok) ==
    /\ l.loaded
    /\ \/ l.exit = 0 /\ l.out = <<"No folders in jump list.", "\n">>
       \/ l.exit = 0 /\ FirstPiece(l.out) = "Removed folder: "
       \/ l.exit # 0 /\ l.errs = <<"Folder not found: ">> \o tok \o <<"\n">>

RanJump(l, tok) ==
    /\ l.loaded
    /\ l.errs = <<>>
    /\ \/ l.exit # 0 /\ l.out = <<>>
       \/ l.exit = 0 /\ \E i \in 1..Len(l.list) :
              /\ l.out = l.list[i]
              /\ DecimalOf(tok, i) \/ Base(l.list[i]) = tok \/ l.list[i] = tok

UsageError(l, msg) ==
    /\ ~l.loaded
    /\ l.exit # 0
    /\ l.out = <<>>
    /\ l.errs = <<msg, "\n">>

\* an invocation that ended did what its command line asks for
Dispatched(l) ==
    IF Len(l.args) < 2 THEN UsageError(l, "Usage: jumper <command>")
    ELSE IF l.args[2] = <<"a", "d", "d">> THEN RanAdd(l)
    ELSE IF l.args[2] = <<"l", "i", "s", "t">> THEN RanList(l)
    ELSE IF l.args[2] = <<"s", "e", "t", "u", "p">> THEN RanSetup(l)
    ELSE IF l.args[2] = <<"r", "e", "m", "o", "v", "e">>
         THEN (IF Len(l.args) < 3
               THEN UsageError(l, "Usage: jumper remove <folder-name-or-number>")
               ELSE RanRemove(l, l.args[3]))
    ELSE RanJump(l, l.args[2])

\* the command line has no verb, or the verb remove without a token
IsUsageError(args) ==
    \/ Len(args) < 2
    \/ Len(args) = 2 /\ args[2] = <<"r", "e", "m", "o", "v", "e">>

\* C12: with invocations run one after the other, the first argument
\* selects the operation: add, list, setup and remove run their handlers,
\* any other first argument is a jump token; remove without a token and an
\* invocation without arguments end with a usage message on standard error
\* and a non-zero exit status, without loading the list, and no step of such
\* an invocation changes the stored list.
C12_DispatchAndUsage ==
    /\ [](\A p \in Procs : proc[p].pc = "done" => Dispatched(proc[p]))
    /\ [][\A p \in Procs :
              (proc'[p] # proc[p] /\ IsUsageError(proc'[p].args)) =>
                  /\ readFolderList(file') = readFolderList(file)
                  /\ exists => file' = file]_vars

\* C12 witness: remove without a token ended with the usage error on a store
\* that holds an entry
C12_Witness ==
    \E p \in Procs :
        /\ proc[p].pc = "done"
        /\ proc[p].args = <<ProgName, StrRemove>>
        /\ proc[p].exit = 1
        /\ Loaded # <<>>

\* C13: the list an invocation loaded is always a list the store held
\* after a completed mutation or at the start, never a truncated file or a
\* part of a list that is being rewritten.
C13_CompleteReads ==
    \A p \in Procs : proc[p].loaded => proc[p].list \in committed

\* the cuts of a text into lines: before its first byte, at every newline
\* and after its last byte
Cuts(s) == {0, Len(s) + 1} \cup {i \in 1..Len(s) : s[i] = "\n"}

\* the lines of a text, each given by the two cuts that enclose it
Segments(s) ==
    {sg \in Cuts(s) \X Cuts(s) :
        sg[1] < sg[2] /\ ~\E c \in Cuts(s) : sg[1] < c /\ c < sg[2]}

LineText(s, sg) == SubSeq(s, sg[1] + 1, sg[2] - 1)

\* a text from its first to its last byte that is not white space
Trimmed(t) ==
    LET ns == {i \in 1..Len(t) : ~IsSpace(t[i])}
    IN  IF ns = {} THEN <<>>
        ELSE SubSeq(t, Smallest(ns), CHOOSE i \in ns : \A j \in ns : j <= i)

\* the lines of a text that are not empty once trimmed
KeptSegments(s) == {sg \in Segments(s) : Trimmed(LineText(s, sg)) # <<>>}

\* the position of a kept line among the kept lines
Rank(s, sg) == Cardinality({x \in KeptSegments(s) : x[1] <= sg[1]})

\* C14: the list loaded from a file content holds, in file order, one entry
\* for every line of the file that is not empty after trimming, that entry
\* being the line without its leading and trailing white space; lines holding
\* the same path each give an entry, and every entry is non-empty and
\* trimmed.
C14_LoadNormalisation ==
    (verb \in {"list", "jump"} /\ ioerr = "none") =>
        /\ Len(folders) = Cardinality(KeptSegments(before))
        /\ \A sg \in KeptSegments(before) :
               folders[Rank(before, sg)] = Trimmed(LineText(before, sg))
        /\ \A i \in 1..Len(folders) :
               /\ folders[i] # <<>>
               /\ ~IsSpace(folders[i][1])
               /\ ~IsSpace(folders[i][Len(folders[i])])

\* C14 witness: a list of a file whose two lines hold the same path, the
\* second with a leading blank, loaded as two entries
C14_Witness ==
    /\ verb = "list"
    /\ before = <<"a", "\n", " ", "a">>
    /\ folders = <<<<"a">>, <<"a">>>>

\* C15: a list, a jump (successful or failed) and an add whose working
\* directory is an entry of the loaded list leave the store file byte for
\* byte as it was before the invocation.
C15_ReadOnlyKeepsStore ==
    (\/ verb \in {"list", "jump"}
     \/ verb = "add" /\ Occurrences(folders, arg) # {}) =>
        file = before

\* C15 witness: an add from a directory already in the list, on a store
\* file whose bytes are not the ones a rewrite of the list would give
C15_Witness ==
    /\ verb = "add" /\ ioerr = "none"
    /\ Occurrences(folders, arg) # {}
    /\ file = before
    /\ file # WriteLines(folders)

\* the entry a remove took out of the list, as named in its confirmation
RemovedEntry == SubSeq(out, 2, Len(out) - 1)

\* a remove that deleted an entry and said so
RemoveSucceeded ==
    /\ exit = 0 /\ Len(out) >= 2 /\ out[1] = "Removed folder: "

\* a jump that printed a path
JumpSucceeded == exit = 0 /\ out # <<>>

\* C16 as stated: jump succeeds exactly when remove finds an entry for the
\* same list and token, the path jump prints is the entry remove deletes,
\* and a jump and a remove that find nothing both end with a non-zero exit
\* status, on every list.
C16_SameResolutionAnyList ==
    /\ (verb = "jump" /\ ioerr = "none") =>
           /\ JumpSucceeded <=> RemoveIndex(folders, arg) # -1
           /\ JumpSucceeded => out = folders[RemoveIndex(folders, arg) + 1]
           /\ ~JumpSucceeded => exit # 0
    /\ (verb = "remove" /\ ioerr = "none") =>
           /\ RemoveSucceeded <=> JumpTarget(folders, arg).found
           /\ RemoveSucceeded =>
                  /\ RemovedEntry = JumpTarget(folders, arg).path
                  /\ \E i \in 1..Len(folders) :
                         /\ folders[i] = RemovedEntry
                         /\ Loaded = RemoveAt(folders, i - 1)
           /\ ~RemoveSucceeded => exit # 0

\* C16 amended: jump succeeds exactly when remove finds an entry for the
\* same list and token, the path jump prints is the entry remove deletes, a
\* jump that finds nothing ends with a non-zero exit status, and so does a
\* remove that finds nothing in a list that is not empty; a remove on an
\* empty list ends with exit status 0.
C16_SameResolution ==
    /\ (verb = "jump" /\ ioerr = "none") =>
           /\ JumpSucceeded <=> RemoveIndex(folders, arg) # -1
           /\ JumpSucceeded => out = folders[RemoveIndex(folders, arg) + 1]
           /\ ~JumpSucceeded => exit # 0
    /\ (verb = "remove" /\ ioerr = "none") =>
           /\ RemoveSucceeded <=> JumpTarget(folders, arg).found
           /\ RemoveSucceeded =>
                  /\ RemovedEntry = JumpTarget(folders, arg).path
                  /\ \E i \in 1..Len(folders) :
                         /\ folders[i] = RemovedEntry
                         /\ Loaded = RemoveAt(folders, i - 1)
           /\ ~RemoveSucceeded => (exit # 0 <=> folders # <<>>)

\* C16 witness: a remove by full path of the second of two entries, the
\* entry a jump with the same token prints
C16_Witness ==
    /\ verb = "remove" /\ ioerr = "none"
    /\ Len(folders) = 2
    /\ arg = folders[2]
    /\ RemoveSucceeded
    /\ RemovedEntry = arg
    /\ JumpTarget(folders, arg).path = arg

\* every invocation that has started is an add, and no two of them run
\* from the same working directory
OnlyDistinctAdds ==
    /\ \A p \in Procs :
           proc[p].pc # "idle" => proc[p].args = <<ProgName, StrAdd>>
    /\ \A a, b \in Procs :
           (a # b /\ proc[a].cwd # <<>> /\ proc[b].cwd # <<>>) =>
               proc[a].cwd # proc[b].cwd

\* C17: while the only invocations are adds from pairwise distinct working
\* directories, no step takes an entry out of the store or changes the order
\* of the entries it holds, and once all of them have ended every add that
\* reported an append has the entry of its working directory in the store.
C17_ConcurrentAddsKeepAll ==
    [][OnlyDistinctAdds' =>
          /\ \E f \in [1..Len(Loaded) -> 1..Len(readFolderList(file'))] :
                 /\ \A i \in 1..Len(Loaded) :
                        readFolderList(file')[f[i]] = Loaded[i]
                 /\ \A i, j \in 1..Len(Loaded) : i < j => f[i] < f[j]
          /\ AllDone' =>
                 \A a \in Procs :
                     AddedBy(a)' =>
                         Occurrences(readFolderList(file'),
                                     EntryOf(proc'[a].cwd)) # {}]_vars

\* C18: main's ensure-file step creates the store file empty when it is
\* absent and never takes an entry out of a store that holds entries,
\* however the steps of the invocations interleave.
C18_StartupKeepsBookmarks ==
    [][\A p \in Procs :
          (proc[p].pc = "create" /\ proc'[p].pc # "create") =>
              /\ ~exists => exists' /\ file' = <<>>
              /\ Loaded # <<>> => file' = file]_vars

====
